---- MODULE Spec2Model ----
(***************************************************************************)
(* fobfuscate: a file is read whole into memory, every block of the buffer *)
(* is bit-inverted in place, and the buffer is written back.               *)
(*                                                                         *)
(* Two revisions of the program live in the repository:                    *)
(*   "new"  src/src/main.c   main / read_file / amd64_cpu_tests /          *)
(*                           obfuscate / writeback_file                    *)
(*   "old"  src/main.c       main / read_file / encrypt / writeback_file   *)
(* The model runs one of them (rev) as a process started from a shell, at  *)
(* most twice in a row, over a small file system.                          *)
(*                                                                         *)
(* Buffers are sequences of bytes; C offset k is index k + 1.              *)
(* The build is x86_64 (the #if branches of src/src/main.c are taken); on  *)
(* another architecture info stays zeroed, which is the run below in which *)
(* cpuid reports no extension.                                             *)
(***************************************************************************)
EXTENDS Integers, Sequences, FiniteSets, TLC

\* Largest file size (bytes) the file system of the model holds.
MaxLen == 33

NULL == "(null)"
DEFAULT_FILENAME == "fob"
Paths == {"in", "fob", "out"}

VARIABLES
    rev,          \* which revision's binary is run: "new" or "old"
    cpuid,        \* what cpuid reports on this machine (fixed)
    fs,           \* file system: path -> [st, data]
    pc,           \* position of the process ("shell": no process running)
    input,        \* argv[optind] (new), argv[1] (old), or NULL
    optarg_o,     \* argument of -o on the command line, or NULL
    output,       \* main's output (new)
    info,         \* struct cpu_info
    buf_null,     \* buf == NULL
    buf,          \* contents of the allocation buf points to
    buf_size,
    current_pos,
    step,
    status,       \* how the last process ended
    rerun,        \* TRUE from the second start of the program on
    \* history of the current run, read by the properties only
    buf_in,       \* buf as read_file filled it
    blocks,       \* block operations of the sweep so far: <<pos, width>>
    oob,          \* a block operation accessed bytes outside the allocation
    engine,       \* obfuscate / encrypt was called in this run
    written,      \* path writeback_file wrote in this run, or NULL
    first         \* what the first run read and where it wrote it

vars == <<rev, cpuid, fs, pc, input, optarg_o, output, info, buf_null, buf,
          buf_size, current_pos, step, status, rerun, buf_in, blocks, oob,
          engine, written, first>>

----------------------------------------------------------------------------
\* Bit-level operations on one byte.

Pow2(k) == IF k = 0 THEN 1 ELSE IF k = 1 THEN 2 ELSE IF k = 2 THEN 4
           ELSE IF k = 3 THEN 8 ELSE IF k = 4 THEN 16 ELSE IF k = 5 THEN 32
           ELSE IF k = 6 THEN 64 ELSE 128

Bit(b, k) == (b \div Pow2(k)) % 2

FromBits(f) == f[0] + 2 * f[1] + 4 * f[2] + 8 * f[3]
               + 16 * f[4] + 32 * f[5] + 64 * f[6] + 128 * f[7]

\* Mutant of NotByte: arithmetic negation (-x) of the byte.
NegByte(b) == (256 - b) % 256

\* ~ applied to the bits of one byte.  ~ on a w-byte unsigned integer acts on
\* each bit alone, so on each byte of its little-endian image alone.
NotByte(b) == FromBits([k \in 0..7 |-> 1 - Bit(b, k)])

\* pxor / vpxor with a register of all ones (pcmpeqb r, r), on one byte.
XorOnesByte(b) == FromBits([k \in 0..7 |-> (Bit(b, k) + 1) % 2])

NotTable == [b \in 0..255 |-> NotByte(b)]
XorTable == [b \in 0..255 |-> XorOnesByte(b)]

\* Offsets [pos, pos + w) that lie inside an allocation of n bytes.
InAlloc(n, pos, w) == pos + w <= n

\* Mutant of flip_block: logical not (!TMP_VAR) in place of ~TMP_VAR.  The
\* w-byte integer becomes 1 if it was 0, else 0.
flip_block_lnot(b, pos, w) ==
    LET zero == \A i \in DOMAIN b : (pos < i /\ i <= pos + w) => b[i] = 0
    IN [i \in DOMAIN b |->
          IF pos < i /\ i <= pos + w
          THEN (IF i = pos + 1 /\ zero THEN 1 ELSE 0)
          ELSE b[i]]

\* flip_block(tmp, TYPE, buf, pos) with sizeof(TYPE) = w: load, ~, store.
\* Only the bytes inside the allocation are part of b.
flip_block(b, pos, w) ==
    [i \in DOMAIN b |-> IF pos < i /\ i <= pos + w THEN NotTable[b[i]] ELSE b[i]]

\* The movdqu / vmovdqu blocks: load w bytes, xor with all ones, store.
xor_block(b, pos, w) ==
    [i \in DOMAIN b |-> IF pos < i /\ i <= pos + w THEN XorTable[b[i]] ELSE b[i]]

----------------------------------------------------------------------------
\* File system.

Missing == [st |-> "missing", data |-> <<>>]
File(d) == [st |-> "file", data |-> d]
Unreadable(d) == [st |-> "unreadable", data |-> d]

\* File contents of n bytes the model starts from.
Contents(n) == { [i \in 1..n |-> 0], [i \in 1..n |-> (37 * i + 11) % 256] }

\* read_file (src/src/main.c) on the file f: the set of its outcomes.
\* access(F_OK) fails for a missing file: NULL.  A file that exists and
\* cannot be opened makes fopen return NULL, which is passed to fseek
\* unchecked (undefined): the process dies on the NULL FILE, or the library
\* rejects it in every call and malloc(-1) yields NULL.
read_file(f) ==
    IF f.st = "missing" THEN { [ret |-> "NULL", data |-> <<>>] }
    ELSE IF f.st = "unreadable"
    THEN { [ret |-> "SIGSEGV", data |-> <<>>], [ret |-> "NULL", data |-> <<>>] }
    ELSE { [ret |-> "buf", data |-> f.data] }

\* read_file (src/main.c): as above, and the fprintf of the missing-file
\* branch has a %s with no argument (undefined): it prints garbage or dies.
old_read_file(f) ==
    IF f.st = "file" THEN { [ret |-> "buf", data |-> f.data] }
    ELSE { [ret |-> "SIGSEGV", data |-> <<>>], [ret |-> "NULL", data |-> <<>>] }

\* writeback_file(fname, buf, buf_size): fopen "w" truncates or creates.
writeback_file(f, fname, b) ==
    [f EXCEPT ![fname] = IF f[fname].st = "unreadable" THEN Unreadable(b)
                         ELSE File(b)]

----------------------------------------------------------------------------

NoInfo == [has_sse3 |-> FALSE, has_sse2 |-> FALSE, has_avx |-> FALSE]
NoFirst == [ok |-> FALSE, data |-> <<>>, out |-> NULL]

Init ==
    /\ rev \in {"new", "old"}
    /\ cpuid \in [sse3 : BOOLEAN, sse2 : BOOLEAN, avx : BOOLEAN]
    \* src/main.c never executes cpuid: one machine stands for all.
    /\ rev = "old" => cpuid = [sse3 |-> FALSE, sse2 |-> FALSE, avx |-> FALSE]
    /\ \E f \in {Missing} \cup { File(d) : d \in UNION { Contents(n) : n \in 0..MaxLen } }
                 \cup { Unreadable(<<0, 0>>) } :
          fs = [p \in Paths |-> IF p = "in" THEN f ELSE Missing]
    /\ pc = "shell"
    /\ input = NULL
    /\ optarg_o = NULL
    /\ output = NULL
    /\ info = NoInfo
    /\ buf_null = TRUE
    /\ buf = <<>>
    /\ buf_size = 0
    /\ current_pos = 0
    /\ step = 0
    /\ status = "none"
    /\ rerun = FALSE
    /\ buf_in = <<>>
    /\ blocks = <<>>
    /\ oob = FALSE
    /\ engine = FALSE
    /\ written = NULL
    /\ first = NoFirst

\* The process ends with status s.
Exit(s) ==
    /\ pc' = "shell"
    /\ status' = s

\* The shell starts the program: "prog [-o o] [i]".  The old revision has
\* no options.  "-o fob" names the default and is left out.  The program is
\* started at most twice.
Exec ==
    /\ pc = "shell"
    /\ ~rerun
    /\ \E i \in Paths \cup {NULL}, o \in {NULL, "in", "out"} :
          /\ rev = "old" => o = NULL
          /\ input' = i
          /\ optarg_o' = o
    /\ rerun' = (status # "none")
    /\ pc' = IF rev = "new" THEN "main" ELSE "old_main"
    /\ status' = "running"
    /\ output' = NULL
    /\ info' = NoInfo
    /\ buf_null' = TRUE
    /\ buf' = <<>>
    /\ buf_size' = 0
    /\ current_pos' = 0
    /\ step' = 0
    /\ buf_in' = <<>>
    /\ blocks' = <<>>
    /\ oob' = FALSE
    /\ engine' = FALSE
    /\ written' = NULL
    /\ UNCHANGED <<rev, cpuid, fs, first>>

----------------------------------------------------------------------------
\* src/src/main.c

\* main, lines 229-241: getopt loop and the check of the file argument.
main_getopt ==
    /\ pc = "main"
    /\ output' = IF optarg_o # NULL THEN optarg_o ELSE DEFAULT_FILENAME
    /\ IF input = NULL
       THEN Exit("exit1")
       ELSE pc' = "read_file" /\ UNCHANGED status
    /\ UNCHANGED <<rev, cpuid, fs, input, optarg_o, info, buf_null, buf, buf_size,
                   current_pos, step, rerun, buf_in, blocks, oob, engine,
                   written, first>>

\* main, lines 243-247: buf = read_file(input, &buf_size) and the NULL check.
main_read_file ==
    /\ pc = "read_file"
    /\ \E r \in read_file(fs[input]) :
          IF r.ret = "buf"
          THEN /\ buf_null' = FALSE
               /\ buf' = r.data
               /\ buf_in' = r.data
               /\ buf_size' = Len(r.data)
               /\ pc' = "cpu_tests"
               /\ UNCHANGED status
          ELSE /\ Exit(IF r.ret = "NULL" THEN "exit1" ELSE r.ret)
               /\ UNCHANGED <<buf_null, buf, buf_in, buf_size>>
    /\ UNCHANGED <<rev, cpuid, fs, input, optarg_o, output, info, current_pos,
                   step, rerun, blocks, oob, engine, written, first>>

\* amd64_cpu_tests(&info) on a zeroed info: has_sse2 is probed only when
\* SSE3 is absent.
cpu_tests(c) ==
    [has_sse3 |-> c.sse3,
     has_sse2 |-> (~c.sse3) /\ c.sse2,
     has_avx  |-> c.avx]

amd64_cpu_tests ==
    /\ pc = "cpu_tests"
    /\ info' = cpu_tests(cpuid)
    /\ pc' = "obfuscate"
    /\ UNCHANGED <<rev, cpuid, fs, input, optarg_o, output, buf_null, buf,
                   buf_size, current_pos, step, status, rerun, buf_in, blocks,
                   oob, engine, written, first>>

\* Mutant of start_step: the 128-bit width is started with whatever cpuid says.
start_step_wide(i) == IF i.has_avx THEN 64 ELSE IF i.has_sse2 \/ i.has_sse3 THEN 16 ELSE 8

\* obfuscate, lines 154-162: the width the sweep starts with.
start_step(i) == IF i.has_avx THEN 32 ELSE IF i.has_sse2 \/ i.has_sse3 THEN 16 ELSE 8

\* obfuscate, lines 153-163.
obfuscate_entry ==
    /\ pc = "obfuscate"
    /\ engine' = TRUE
    /\ current_pos' = 0
    /\ step' = start_step(info)
    /\ blocks' = <<>>
    /\ pc' = "while"
    /\ UNCHANGED <<rev, cpuid, fs, input, optarg_o, output, info, buf_null, buf,
                   buf_size, status, rerun, buf_in, oob, written, first>>

\* obfuscate, lines 167-169: the assertion on step holds.
obfuscate_assert(st) == st # 1 => (st % 2 = 0 /\ st <= 32)

\* obfuscate, lines 165-169: loop condition, then the assertion.
obfuscate_while ==
    /\ pc = "while"
    /\ IF current_pos < buf_size
       THEN IF obfuscate_assert(step)
            THEN pc' = "degrade" /\ UNCHANGED status
            ELSE Exit("SIGABRT")
       ELSE pc' = "writeback" /\ UNCHANGED status
    /\ UNCHANGED <<rev, cpuid, fs, input, optarg_o, output, info, buf_null, buf,
                   buf_size, current_pos, step, rerun, buf_in, blocks, oob,
                   engine, written, first>>

\* Mutant of degrade_cond: the step is left out of the comparison.
degrade_cond_nostep(pos, st, size) == (pos >= size) /\ st > 1

\* Mutant of degrade_cond: the step is halved down to 0.
degrade_cond_zero(pos, st, size) == ((pos + st) >= size) /\ st > 0

\* Mutant of degrade_cond: a block that ends exactly at the end of the buffer
\* is kept.
degrade_cond_gt(pos, st, size) == ((pos + st) > size) /\ st > 1

\* obfuscate, line 172: the condition of the inner while.
degrade_cond(pos, st, size) == ((pos + st) >= size) /\ st > 1

\* obfuscate, lines 172-174: one turn of the inner while, step >>= 1.
obfuscate_degrade ==
    /\ pc = "degrade"
    /\ degrade_cond(current_pos, step, buf_size)
    /\ step' = step \div 2
    /\ UNCHANGED <<rev, cpuid, fs, pc, input, optarg_o, output, info, buf_null,
                   buf, buf_size, current_pos, status, rerun, buf_in, blocks,
                   oob, engine, written, first>>

\* obfuscate, lines 176-213: the switch; a step with no case does nothing.
obfuscate_case(b, pos, st) ==
    IF st \in {32, 16} THEN xor_block(b, pos, st)
    ELSE IF st \in {8, 4, 2, 1} THEN flip_block(b, pos, st)
    ELSE b

\* obfuscate, line 215: current_pos += step.
advance(pos, st) == pos + st

\* obfuscate, lines 176-215: the block operation and the advance.  A block
\* that reaches past the allocation is an access out of bounds (undefined):
\* the process dies or goes on with the heap damaged.
obfuscate_switch ==
    /\ pc = "degrade"
    /\ ~degrade_cond(current_pos, step, buf_size)
    /\ LET hit == step \in {32, 16, 8, 4, 2, 1}
           out == hit /\ ~InAlloc(Len(buf), current_pos, step)
       IN /\ buf' = obfuscate_case(buf, current_pos, step)
          /\ blocks' = IF hit THEN Append(blocks, <<current_pos, step>>) ELSE blocks
          /\ oob' = (oob \/ out)
          /\ current_pos' = advance(current_pos, step)
          /\ \/ pc' = "while" /\ UNCHANGED status
             \/ out /\ Exit("SIGSEGV")
    /\ UNCHANGED <<rev, cpuid, fs, input, optarg_o, output, info, buf_null,
                   buf_size, step, rerun, buf_in, engine, written, first>>

\* Mutant of output_path: the buffer goes back to the file it was read from
\* unless -o is given.
output_path_inplace(out, in) == IF optarg_o # NULL THEN out ELSE in

\* main, line 254: the path handed to writeback_file.
output_path(out, in) == out

\* main, lines 253-259: after obfuscate returns, writeback_file(output, ...)
\* and return 0.
main_writeback ==
    /\ pc = "writeback"
    /\ LET to == output_path(output, input)
       IN /\ fs' = writeback_file(fs, to, buf)
          /\ written' = to
          /\ first' = IF rerun THEN first
                      ELSE [ok |-> TRUE, data |-> buf_in, out |-> to]
    /\ Exit("exit0")
    /\ UNCHANGED <<rev, cpuid, input, optarg_o, output, info, buf_null, buf,
                   buf_size, current_pos, step, rerun, buf_in, blocks, oob,
                   engine>>

----------------------------------------------------------------------------
\* src/main.c

\* main, lines 131-137: the argc check, then buf = read_file(argv[1],
\* &buf_size) with no check of the result.  When read_file returns NULL,
\* buf_size was never set: it holds any value.
old_main ==
    /\ pc = "old_main"
    /\ IF input = NULL
       THEN /\ Exit("exit1")
            /\ UNCHANGED <<buf_null, buf, buf_in, buf_size>>
       ELSE \E r \in old_read_file(fs[input]) :
               IF r.ret = "SIGSEGV"
               THEN /\ Exit("SIGSEGV")
                    /\ UNCHANGED <<buf_null, buf, buf_in, buf_size>>
               ELSE /\ buf_null' = (r.ret = "NULL")
                    /\ buf' = r.data
                    /\ buf_in' = r.data
                    /\ IF r.ret = "NULL"
                       THEN buf_size' \in 0..MaxLen
                       ELSE buf_size' = Len(r.data)
                    /\ pc' = "encrypt"
                    /\ UNCHANGED status
    /\ UNCHANGED <<rev, cpuid, fs, input, optarg_o, output, info, current_pos,
                   step, rerun, blocks, oob, engine, written, first>>

\* encrypt, lines 92-93.
encrypt_entry ==
    /\ pc = "encrypt"
    /\ engine' = TRUE
    /\ current_pos' = 0
    /\ step' = 8
    /\ blocks' = <<>>
    /\ pc' = "e_while"
    /\ UNCHANGED <<rev, cpuid, fs, input, optarg_o, output, info, buf_null, buf,
                   buf_size, status, rerun, buf_in, oob, written, first>>

\* encrypt, lines 97-99: the assertion on step holds.
encrypt_assert(st) == st # 1 => (st % 2 = 0 /\ st <= 8)

\* encrypt, lines 95-99.
encrypt_while ==
    /\ pc = "e_while"
    /\ IF current_pos < buf_size
       THEN IF encrypt_assert(step)
            THEN pc' = "e_switch" /\ UNCHANGED status
            ELSE Exit("SIGABRT")
       ELSE pc' = "old_writeback" /\ UNCHANGED status
    /\ UNCHANGED <<rev, cpuid, fs, input, optarg_o, output, info, buf_null, buf,
                   buf_size, current_pos, step, rerun, buf_in, blocks, oob,
                   engine, written, first>>

\* encrypt, lines 101-114: the switch.
encrypt_case(b, pos, st) ==
    IF st \in {8, 4, 2, 1} THEN flip_block(b, pos, st) ELSE b

\* encrypt, lines 101-116: the block operation at the current step, with no
\* degradation before it, and the advance.  On a NULL buf the access is a
\* NULL dereference; past the allocation it is an access out of bounds
\* (undefined): the process dies or goes on with the heap damaged.
encrypt_switch ==
    /\ pc = "e_switch"
    /\ LET hit == step \in {8, 4, 2, 1}
           out == hit /\ ~InAlloc(Len(buf), current_pos, step)
       IN IF hit /\ buf_null
          THEN /\ Exit("SIGSEGV")
               /\ UNCHANGED <<buf, blocks, oob, current_pos>>
          ELSE /\ buf' = encrypt_case(buf, current_pos, step)
               /\ blocks' = IF hit THEN Append(blocks, <<current_pos, step>>)
                            ELSE blocks
               /\ oob' = (oob \/ out)
               /\ current_pos' = current_pos + step
               /\ \/ pc' = "e_degrade" /\ UNCHANGED status
                  \/ out /\ Exit("SIGSEGV")
    /\ UNCHANGED <<rev, cpuid, fs, input, optarg_o, output, info, buf_null,
                   buf_size, step, rerun, buf_in, engine, written, first>>

\* encrypt, lines 118-121: the inner while after the block operation.
encrypt_degrade ==
    /\ pc = "e_degrade"
    /\ IF ((current_pos + step) >= buf_size) /\ step > 1
       THEN step' = step \div 2 /\ UNCHANGED pc
       ELSE pc' = "e_while" /\ UNCHANGED step
    /\ UNCHANGED <<rev, cpuid, fs, input, optarg_o, output, info, buf_null, buf,
                   buf_size, current_pos, status, rerun, buf_in, blocks, oob,
                   engine, written, first>>

\* main, lines 138-141: writeback_file(argv[1], buf, buf_size), return 0.
\* With buf NULL and buf_size 0 the file is created empty.
old_writeback ==
    /\ pc = "old_writeback"
    /\ fs' = writeback_file(fs, input, buf)
    /\ written' = input
    /\ first' = IF rerun \/ buf_null THEN first
                ELSE [ok |-> TRUE, data |-> buf_in, out |-> input]
    /\ Exit("exit0")
    /\ UNCHANGED <<rev, cpuid, input, optarg_o, output, info, buf_null, buf,
                   buf_size, current_pos, step, rerun, buf_in, blocks, oob,
                   engine>>

----------------------------------------------------------------------------

Next ==
    \/ Exec
    \/ main_getopt
    \/ main_read_file
    \/ amd64_cpu_tests
    \/ obfuscate_entry
    \/ obfuscate_while
    \/ obfuscate_degrade
    \/ obfuscate_switch
    \/ main_writeback
    \/ old_main
    \/ encrypt_entry
    \/ encrypt_while
    \/ encrypt_switch
    \/ encrypt_degrade
    \/ old_writeback

Spec == Init /\ [][Next]_vars

\* The process is scheduled until it ends: every step of a started program
\* is eventually taken.  The shell need not start the program.
Run == Next /\ pc # "shell"
FairSpec == Spec /\ WF_vars(Run)

----------------------------------------------------------------------------
\* Properties.

\* A block operation of obfuscate is about to be applied at the current step.
AtBlock == rev = "new" /\ pc = "degrade" /\ ~degrade_cond(current_pos, step, buf_size)

\* The sweep of obfuscate has returned to main.
Swept == rev = "new" /\ pc = "writeback"

\* The blocks of bs tile [0, n): the first starts at 0, each starts where the
\* one before it ends, the last ends at n.
Tiles(bs, n) ==
    /\ (bs = <<>>) <=> (n = 0)
    /\ bs # <<>> => bs[1][1] = 0 /\ bs[Len(bs)][1] + bs[Len(bs)][2] = n
    /\ \A k \in 1..(Len(bs) - 1) : bs[k + 1][1] = bs[k][1] + bs[k][2]
    /\ \A k \in 1..Len(bs) : bs[k][2] >= 1

\* The largest power of two that is <= n, for 1 <= n.
LargestPow2(n) ==
    IF n >= 32 THEN 32 ELSE IF n >= 16 THEN 16 ELSE IF n >= 8 THEN 8
    ELSE IF n >= 4 THEN 4 ELSE IF n >= 2 THEN 2 ELSE 1

Min(a, b) == IF a <= b THEN a ELSE b

\* C1: every block operation of obfuscate is in bounds: when a block of width
\* step is inverted at current_pos, current_pos + step <= buf_size, and no
\* byte outside the buffer is ever accessed.
C1_InBounds ==
    /\ AtBlock => current_pos + step <= buf_size
    /\ rev = "new" => ~oob

\* C1 witness: after degradation, the 1-byte block at the last position.
C1_Witness ==
    /\ AtBlock
    /\ step = 1
    /\ current_pos + 1 = buf_size
    /\ blocks # <<>>

\* C2: one sweep of obfuscate covers every index of [0, length) by exactly one
\* block (contiguous blocks from 0 to length), and after it every byte is the
\* bitwise complement of its input value.
C2_Coverage ==
    Swept =>
        /\ Tiles(blocks, buf_size)
        /\ Len(buf) = buf_size
        /\ \A i \in 1..buf_size : buf[i] = 255 - buf_in[i]

\* C2 witness: a swept buffer of several blocks with varied contents.
C2_Witness ==
    /\ Swept
    /\ Len(blocks) >= 3
    /\ buf_size >= 20
    /\ buf_in[1] # buf_in[2]

\* C3: the sweep of obfuscate terminates, with position = length exactly and
\* never beyond it; for length 0 it ends at once with no block operation and
\* no mutation.
C3_Terminates ==
    /\ (pc = "obfuscate") ~> (pc = "writeback")
    /\ [](rev = "new" => current_pos <= buf_size)
    /\ [](Swept => current_pos = buf_size)
    /\ [](Swept /\ buf_size = 0 => blocks = <<>> /\ buf = buf_in)

\* C3 witness: a sweep that ended at position = length after degrading.
C3_Witness ==
    /\ Swept
    /\ current_pos = buf_size
    /\ buf_size > 8
    /\ step = 1

\* C4: involution: running the program again on what the first run wrote
\* (same machine, so same capabilities) writes the first run's input back
\* byte for byte.
C4_Involution ==
    (rev = "new" /\ rerun /\ pc = "shell" /\ status = "exit0"
        /\ first.ok /\ input = first.out)
    => fs[written].data = first.data

\* C4 witness: a second run over the first run's output, on varied contents.
C4_Witness ==
    /\ rev = "new" /\ rerun /\ pc = "shell" /\ status = "exit0"
    /\ first.ok /\ input = first.out
    /\ Len(first.data) >= 10
    /\ first.data[1] # first.data[2]
    /\ fs[written].data = first.data

\* C5: at every block operation the step is the largest power of two that is
\* <= min(starting width, length - position).
C5_ExactWidth ==
    AtBlock => step = LargestPow2(Min(start_step(info), buf_size - current_pos))

\* C6 as stated: a run that read its input and was given no -o writes the
\* buffer back to the path it was read from.
C6_SamePath ==
    (pc = "shell" /\ status = "exit0" /\ ~buf_null /\ optarg_o = NULL)
    => written = input

\* C6 amended: a run that read its input writes the buffer to the -o
\* argument if one is given and else to DEFAULT_FILENAME (src/src/main.c);
\* the revision without options (src/main.c) writes to the input path.
C6_OutputPath ==
    (pc = "shell" /\ status = "exit0" /\ ~buf_null)
    => written = IF rev = "old" THEN input
                 ELSE IF optarg_o # NULL THEN optarg_o ELSE DEFAULT_FILENAME

\* C6 witness: no -o, the result is in "fob" and the input file is untouched.
C6_Witness ==
    /\ rev = "new" /\ pc = "shell" /\ status = "exit0" /\ ~buf_null
    /\ optarg_o = NULL
    /\ input = "in"
    /\ written = DEFAULT_FILENAME
    /\ buf_size > 0
    /\ fs["in"].data = buf_in
    /\ fs["fob"].data = buf

\* C7: when the input file is missing or cannot be read, the engine is not
\* invoked, no file is written and the process ends with a non-zero status.
C7_ReadFailure ==
    (pc = "shell" /\ status # "none" /\ input # NULL /\ buf_null)
    => (~engine /\ written = NULL /\ status # "exit0")

C10_EncryptInBounds ==
    (rev = "old" /\ pc = "e_switch" /\ ~buf_null)
    => current_pos + step <= buf_size

====
